---- MODULE Spec2Model ----
(***************************************************************************)
(* Model of startup() in packages/arb-rpc-node/cmd/arb-node/arb-node.go:   *)
(* configuration validation, the two retry loops, mode resolution, the     *)
(* supervisor's three-way select and the deferred releases.  The           *)
(* orchestrator goroutine is the program counter pc; the goroutines it     *)
(* launches and the operator's signal are the environment actions.         *)
(***************************************************************************)
EXTENDS Integers, Sequences, FiniteSets, TLC

VARIABLES
    cfg,          \* the configuration returned by configuration.ParseNode
    parseErr,     \* the error returned by configuration.ParseNode
    pc,           \* position of the orchestrator inside startup()
    out,          \* lines printed to standard output, in order
    result,       \* value returned by startup(): "none" until it returns
    defers,       \* stack of deferred calls, top first
    released,     \* deferred calls already run, in order
    started,      \* subsystems opened/launched so far, in order
    ctxDone,      \* ctx.Done() is closed
    cancelChan,   \* a value is pending on cancelChan
    txDBErrChan,  \* an error is pending on txDBErrChan
    errChan,      \* contents of errChan (capacity 1)
    healthChan,   \* contents of healthChan (capacity largeChannelBuffer)
    hIdx,         \* number of health events the orchestrator has sent
    inboxReader,  \* the variable inboxReader: the call that returned it, 0 for nil
    irCalls,      \* calls of mon.StartInboxReader
    irWaits,      \* completed time.After waits of the inbox-reader loop
    irWarns,      \* warnings logged by the inbox-reader loop
    sbCalls,      \* calls of rpc.SetupBatcher
    sbWaits,      \* completed time.After waits of the batcher loop
    sbWarns,      \* warnings logged by the batcher loop
    batch,        \* the variable batch: [id, wrapped] or NoBatch
    lockoutOn,    \* ids of the batchers rpc.SetupLockout was called on, in order
    startedOn,    \* the batch values Start was launched on, in order
    batcherMode,  \* the variable batcherMode
    authCalls,    \* calls of GetKeystore and WaitForBalance, in order
    rpcState,     \* the goroutine running rpc.LaunchPublicServer
    batcherRun,   \* the goroutine running batch.Start
    lockoutState, \* the lockout wrapper returned by rpc.SetupLockout
    txdbState,    \* the transaction database: "none", "open" or "failed"
    firstFired,   \* the watched channel that was sent to first
    cancelAt,     \* where the orchestrator was when the signal fired
    selectHow     \* how the final select returned: "entry" or "parked"

vars == <<cfg, parseErr, pc, out, result, defers, released, started, ctxDone,
          cancelChan, txDBErrChan, errChan, healthChan, hIdx, inboxReader,
          irCalls, irWaits, irWarns, sbCalls, sbWaits, sbWarns, batch, lockoutOn, startedOn,
          batcherMode, authCalls, rpcState, batcherRun, lockoutState,
          txdbState, firstFired, cancelAt, selectHow>>

cfgVars == <<cfg, parseErr>>
irVars == <<inboxReader, irCalls, irWaits, irWarns>>
sbVars == <<sbCalls, sbWaits, sbWarns, batch, lockoutOn, startedOn>>
chanVars == <<ctxDone, cancelChan, txDBErrChan, errChan, firstFired, cancelAt>>
healthVars == <<healthChan, hIdx>>
taskVars == <<rpcState, batcherRun, lockoutState, txdbState>>

(***************************************************************************)
(* Bounds of the model.                                                    *)
(***************************************************************************)
MaxFail == 2      \* failures of one constructor before it must succeed
MaxFeeds == 1     \* length of config.Feed.Input.URLs
MaxFaults == 2    \* signals and failures of launched goroutines in one run

(***************************************************************************)
(* Program constants.                                                      *)
(***************************************************************************)
\* A health channel made with room for four events only.
smallChannelBuffer == 2 + 2
largeChannelBuffer == 200
errChanCap == 1

NoBatch == [id |-> 0, wrapped |-> FALSE]

NodeTypes == {"forwarder", "aggregator", "sequencer", "validator"}
Str == {"", "x"}
ParseErrs == {"nil", "help requested", "unknown flag"}
BlockCounts == {0, 1}

Configs ==
    [GlobalConfig : Str, L1URL : Str, RollupAddress : Str,
     BridgeUtilsAddress : Str, PersistentChain : Str, ChainID : {0, 1},
     MachineFilename : Str, NodeType : NodeTypes, ForwarderTarget : Str,
     InboxAddress : Str, LockoutRedis : Str, LockoutSelfRPCURL : Str,
     WaitToCatchUp : BOOLEAN, Stateful : BOOLEAN, FeedURLs : 0..MaxFeeds,
     DelayedMessagesTargetDelay : BlockCounts,
     CreateBatchBlockInterval : BlockCounts]

ZeroConfig ==
    [GlobalConfig |-> "", L1URL |-> "", RollupAddress |-> "",
     BridgeUtilsAddress |-> "", PersistentChain |-> "", ChainID |-> 0,
     MachineFilename |-> "", NodeType |-> "forwarder", ForwarderTarget |-> "",
     InboxAddress |-> "", LockoutRedis |-> "", LockoutSelfRPCURL |-> "",
     WaitToCatchUp |-> FALSE, Stateful |-> FALSE, FeedURLs |-> 0,
     DelayedMessagesTargetDelay |-> 0, CreateBatchBlockInterval |-> 0]

(***************************************************************************)
(* Validation, lines 92-147.                                               *)
(***************************************************************************)
\* strings.Contains(err.Error(), "help requested")
HelpRequested(err) == err = "help requested"

\* The first if without the test that only a sequencer sets the lockout
\* redis address.
FirstGateNoRoleTest(err, c) ==
    \/ err # "nil"
    \/ c.GlobalConfig = ""
    \/ c.L1URL = ""
    \/ c.RollupAddress = ""
    \/ c.BridgeUtilsAddress = ""
    \/ ((c.LockoutRedis = "") # (c.LockoutSelfRPCURL = ""))

\* The first if without its last disjunct, the test of the lockout pair.
FirstGateNoPairTest(err, c) ==
    \/ err # "nil"
    \/ c.GlobalConfig = ""
    \/ c.L1URL = ""
    \/ c.RollupAddress = ""
    \/ c.BridgeUtilsAddress = ""
    \/ (c.NodeType # "sequencer" /\ c.LockoutRedis # "")

\* The condition of the first if, lines 93-96.
FirstGate(err, c) ==
    \/ err # "nil"
    \/ c.GlobalConfig = ""
    \/ c.L1URL = ""
    \/ c.RollupAddress = ""
    \/ c.BridgeUtilsAddress = ""
    \/ (c.NodeType # "sequencer" /\ c.LockoutRedis # "")
    \/ ((c.LockoutRedis = "") # (c.LockoutSelfRPCURL = ""))

\* What the body of the first if prints, lines 97-100.
FirstGateOutput(err) ==
    <<"usage">> \o
    (IF err # "nil" /\ ~HelpRequested(err) THEN <<err>> ELSE <<>>)

If(cond, msg) == IF cond THEN <<msg>> ELSE <<>>
If2(cond, x) == IF cond THEN {x} ELSE {}

\* The messages printed while badConfig is computed, lines 105-143, in order.
BadConfigOutput(c) ==
    If(c.BridgeUtilsAddress = "", "Missing --bridge-utils-address") \o
    If(c.PersistentChain = "", "Missing --persistent.chain") \o
    If(c.RollupAddress = "", "Missing --rollup.address") \o
    If(c.ChainID = 0, "Missing --rollup.chain-id") \o
    If(c.MachineFilename = "", "Missing --rollup.machine.filename") \o
    (IF c.NodeType = "forwarder"
       THEN If(c.ForwarderTarget = "", "Forwarder node needs --node.forwarder.target")
     ELSE IF c.NodeType = "aggregator"
       THEN If(c.InboxAddress = "", "Aggregator node needs --node.aggregator.inbox-address")
     ELSE IF c.NodeType = "sequencer"
       THEN <<>>
     ELSE <<"Unrecognized node type">>)

\* badConfig at line 145: it is set exactly where a message is printed.
BadConfig(c) == BadConfigOutput(c) # <<>>

\* A validation that leaves config.WaitToCatchUp as it was parsed.
WaitToCatchUpNeverForced(c) == c.WaitToCatchUp
\* config.WaitToCatchUp after lines 137-139.
WaitToCatchUpAfter(c) ==
    IF c.NodeType = "sequencer" THEN TRUE ELSE c.WaitToCatchUp

Push(d) == <<d>> \o defers

TypeOK ==
    /\ cfg \in Configs
    /\ parseErr \in ParseErrs
    /\ Len(healthChan) <= largeChannelBuffer
    /\ Len(errChan) <= errChanCap

\* The fields of a role are read only under that role (the forwarder target
\* at lines 128, 187, 225; the inbox address and the stateful flag at lines
\* 133, 253-258; the two block counts of the sequencer at lines 249-250),
\* so they are left at their zero value under the other roles.
RoleFieldsOnlyForRole(c) ==
    /\ c.NodeType # "forwarder" => c.ForwarderTarget = ""
    /\ c.NodeType # "aggregator" => c.InboxAddress = "" /\ ~c.Stateful
    /\ c.NodeType # "sequencer" =>
          c.DelayedMessagesTargetDelay = 0 /\ c.CreateBatchBlockInterval = 0

Init ==
    /\ parseErr \in ParseErrs
    /\ cfg \in Configs
    /\ RoleFieldsOnlyForRole(cfg)
    /\ parseErr # "nil" => cfg = ZeroConfig
    /\ pc = "start"
    /\ out = <<>>
    /\ result = "none"
    /\ defers = <<>>
    /\ released = <<>>
    /\ started = <<>>
    /\ ctxDone = FALSE
    /\ cancelChan = FALSE
    /\ txDBErrChan = FALSE
    /\ errChan = <<>>
    /\ healthChan = <<>>
    /\ hIdx = 0
    /\ inboxReader = 0
    /\ irCalls = 0 /\ irWaits = 0 /\ irWarns = 0
    /\ sbCalls = 0 /\ sbWaits = 0 /\ sbWarns = 0
    /\ batch = NoBatch
    /\ lockoutOn = <<>>
    /\ startedOn = <<>>
    /\ batcherMode = [variant |-> "unset"]
    /\ authCalls = <<>>
    /\ rpcState = "none"
    /\ batcherRun = "none"
    /\ lockoutState = "none"
    /\ txdbState = "none"
    /\ firstFired = "none"
    /\ cancelAt = "never"
    /\ selectHow = "none"

\* Lines 89-149: create the context, parse and validate the configuration.
Validate ==
    /\ pc = "start"
    /\ IF FirstGate(parseErr, cfg)
         THEN /\ out' = out \o FirstGateOutput(parseErr)
              /\ result' = "nil"
              /\ pc' = "unwind"
              /\ defers' = Push("cancelFunc")
              /\ cfg' = cfg
         ELSE /\ out' = out \o BadConfigOutput(cfg)
              /\ cfg' = [cfg EXCEPT !.WaitToCatchUp = WaitToCatchUpAfter(cfg)]
              /\ IF BadConfig(cfg)
                   THEN /\ result' = "nil"
                        /\ pc' = "unwind"
                        /\ defers' = Push("cancelFunc")
                   ELSE /\ result' = result
                        /\ pc' = "logflags"
                        /\ defers' = <<"log shutdown", "cancelFunc">>
    /\ UNCHANGED <<parseErr, authCalls, released, started, irVars, sbVars, chanVars,
                   healthVars, taskVars, batcherMode, selectHow>>

\* A return statement has been executed: run the deferred calls, last first.
RunDeferred ==
    /\ pc = "unwind"
    /\ defers # <<>>
    /\ released' = Append(released, Head(defers))
    /\ defers' = Tail(defers)
    /\ ctxDone' = IF Head(defers) = "cancelFunc" THEN TRUE ELSE ctxDone
    /\ pc' = IF Len(defers) = 1 THEN "done" ELSE "unwind"
    /\ UNCHANGED <<cfgVars, authCalls, out, result, started, cancelChan, txDBErrChan,
                   errChan, firstFired, cancelAt, healthVars, irVars,
                   sbVars, taskVars, batcherMode, selectHow>>

\* Leave startup() with the value v: the deferred calls run next.
Return(v) ==
    /\ result' = v
    /\ pc' = "unwind"

\* Lines 151-153: cmdhelp.ParseLogFlags.
ParseLogFlags ==
    /\ pc = "logflags"
    /\ \E ok \in BOOLEAN :
         IF ok THEN pc' = "monitor" /\ result' = result
               ELSE Return("error parsing log flags")
    /\ UNCHANGED <<cfgVars, authCalls, out, defers, released, started, irVars, sbVars,
                   chanVars, healthVars, taskVars, batcherMode, selectHow>>

\* Lines 166-179: monitor.NewMonitor, defer mon.Close(), and the goroutine
\* running nodehealth.StartNodeHealthCheck.
NewMonitor ==
    /\ pc = "monitor"
    /\ \E ok \in BOOLEAN :
         IF ok
           THEN /\ started' = started \o <<"monitor", "healthcheck">>
                /\ defers' = Push("mon.Close")
                /\ pc' = "health"
                /\ result' = result
           ELSE /\ Return("error opening monitor")
                /\ UNCHANGED <<started, defers>>
    /\ UNCHANGED <<cfgVars, authCalls, out, released, irVars, sbVars, chanVars,
                   healthVars, taskVars, batcherMode, selectHow>>

\* The values sent on healthChan by lines 181-189, in order.
HealthEvents(c) ==
    <<"healthcheckMetrics", "disablePrimaryCheck", "disableOpenEthereumCheck",
      "healthcheckRPC">> \o
    If(c.NodeType = "forwarder", "primaryHealthcheckRPC") \o
    <<"openethereumHealthcheckRPC">>

\* One send healthChan <- ...; it blocks while the buffer is full.
PublishHealth ==
    /\ pc = "health"
    /\ hIdx < Len(HealthEvents(cfg))
    /\ Len(healthChan) < largeChannelBuffer
    /\ healthChan' = Append(healthChan, HealthEvents(cfg)[hIdx + 1])
    /\ hIdx' = hIdx + 1
    /\ UNCHANGED <<cfgVars, authCalls, pc, out, result, defers, released, started, irVars,
                   sbVars, chanVars, taskVars, batcherMode, selectHow>>

\* Lines 190-201: nodehealth.Init and the feed clients, one per URL.  From
\* nodehealth.Init on the channel is written by nodehealth and by the inbox
\* reader as well; its contents are followed only up to this point.
SubscribeFeed ==
    /\ pc = "health"
    /\ hIdx = Len(HealthEvents(cfg))
    /\ healthChan' = <<>>
    /\ started' = started \o [i \in 1..cfg.FeedURLs |-> "feed"]
    /\ pc' = "ir_call"
    /\ UNCHANGED <<cfgVars, authCalls, out, result, defers, released, irVars, sbVars,
                   chanVars, hIdx, taskVars, batcherMode, selectHow>>

\* The goroutine of nodehealth.StartNodeHealthCheck receives from healthChan.
HealthConsume ==
    /\ pc = "health"
    /\ healthChan # <<>>
    /\ healthChan' = Tail(healthChan)
    /\ UNCHANGED <<cfgVars, authCalls, pc, out, result, defers, released, started, hIdx,
                   irVars, sbVars, chanVars, taskVars, batcherMode, selectHow>>

(***************************************************************************)
(* The inbox-reader retry loop, lines 202-219.                             *)
(***************************************************************************)
\* Line 204: the call of mon.StartInboxReader begins.
IRInvoke ==
    /\ pc = "ir_call"
    /\ irCalls' = irCalls + 1
    /\ started' = IF irCalls = 0 THEN Append(started, "inboxReader") ELSE started
    /\ pc' = "ir_running"
    /\ UNCHANGED <<cfgVars, authCalls, out, result, defers, released, inboxReader,
                   irWaits, irWarns, sbVars, chanVars, healthVars, taskVars, batcherMode,
                   selectHow>>

\* Lines 205-207: the call returned err == nil; break.
IRSucceed ==
    /\ pc = "ir_running"
    /\ inboxReader' = irCalls
    /\ pc' = "mode"
    /\ UNCHANGED <<cfgVars, authCalls, out, result, defers, released, started, irCalls,
                   irWaits, irWarns, sbVars, chanVars, healthVars, taskVars, batcherMode,
                   selectHow>>

\* A loop that returns when an attempt fails, without retrying.
IRFailTargetGivesUp == "unwind"
\* A loop that calls again at once, without the select.
IRFailTargetNoWait == "ir_call"

\* Where a failed attempt of the inbox-reader loop goes: the select of
\* lines 214-218.
IRFailTarget == "ir_wait"

\* Lines 208-212: the call returned an error; log the warning, reach the select.
IRFail ==
    /\ pc = "ir_running"
    /\ irWarns < MaxFail
    /\ irWarns' = irWarns + 1
    /\ inboxReader' = 0
    /\ pc' = IRFailTarget
    /\ UNCHANGED <<cfgVars, authCalls, out, result, defers, released, started, irCalls,
                   irWaits, sbVars, chanVars, healthVars, taskVars,
                   batcherMode, selectHow>>

\* Lines 214-216: case <-ctx.Done().
IRWaitCancelled ==
    /\ pc = "ir_wait"
    /\ ctxDone
    /\ Return("ctx cancelled StartInboxReader retry loop")
    /\ UNCHANGED <<cfgVars, authCalls, out, defers, released, started, irVars, sbVars,
                   chanVars, healthVars, taskVars, batcherMode, selectHow>>

\* A wait that ignores ctx.Done(), as time.Sleep would.
TimerAlwaysWins == TRUE

\* The timer of the retry select fires only if ctx.Done() did not win it.
TimerWins == ~ctxDone

\* Lines 214, 217: case <-time.After(5 * time.Second); loop again.
IRWaitTimeout ==
    /\ pc = "ir_wait"
    /\ TimerWins
    /\ irWaits' = irWaits + 1
    /\ pc' = "ir_call"
    /\ UNCHANGED <<cfgVars, authCalls, out, result, defers, released, started,
                   inboxReader, irCalls, irWarns, sbVars, chanVars, healthVars, taskVars,
                   batcherMode, selectHow>>

(***************************************************************************)
(* Mode resolution, lines 221-260.                                         *)
(***************************************************************************)
\* A mode resolution with the two block counts of the sequencer exchanged
\* and the stateful flag read the wrong way round.
ResolveModeSwapped(c) ==
    IF c.NodeType = "forwarder"
      THEN [variant |-> "Forwarder", NodeURL |-> c.ForwarderTarget]
    ELSE IF c.NodeType = "sequencer"
      THEN [variant |-> "Sequencer",
            DelayedMessagesTargetDelay |-> c.CreateBatchBlockInterval,
            CreateBatchBlockInterval |-> c.DelayedMessagesTargetDelay]
    ELSE IF c.Stateful
      THEN [variant |-> "StatelessAggregator", InboxAddress |-> c.InboxAddress]
    ELSE [variant |-> "StatefulAggregator", InboxAddress |-> c.InboxAddress]
\* The value assigned to batcherMode for a configuration: the variant and
\* the fields copied from the configuration.
ResolveMode(c) ==
    IF c.NodeType = "forwarder"
      THEN [variant |-> "Forwarder", NodeURL |-> c.ForwarderTarget]
    ELSE IF c.NodeType = "sequencer"
      THEN [variant |-> "Sequencer",
            DelayedMessagesTargetDelay |-> c.DelayedMessagesTargetDelay,
            CreateBatchBlockInterval |-> c.CreateBatchBlockInterval]
    ELSE IF c.Stateful
      THEN [variant |-> "StatefulAggregator", InboxAddress |-> c.InboxAddress]
    ELSE [variant |-> "StatelessAggregator", InboxAddress |-> c.InboxAddress]

\* A startup that asks every role for a signing identity.
KeystoreAlways(c) == TRUE

\* Lines 223, 226: the else branch, taken by every role but the forwarder.
KeystoreNeeded(c) == c.NodeType # "forwarder"

\* Lines 223-225: forwarder mode needs no signing identity.
ModeForwarder ==
    /\ pc = "mode"
    /\ ~KeystoreNeeded(cfg)
    /\ batcherMode' = ResolveMode(cfg)
    /\ pc' = "txdb"
    /\ UNCHANGED <<cfgVars, authCalls, out, result, defers, released, started, irVars,
                   sbVars, chanVars, healthVars, taskVars, selectHow>>

\* Lines 227-231: cmdhelp.GetKeystore.
GetKeystore ==
    /\ pc = "mode"
    /\ KeystoreNeeded(cfg)
    /\ authCalls' = Append(authCalls, "GetKeystore")
    /\ \E ok \in BOOLEAN :
         IF ok THEN pc' = "balance" /\ result' = result
               ELSE Return("error running GetKeystore")
    /\ UNCHANGED <<cfgVars, out, defers, released, started, irVars, sbVars,
                   chanVars, healthVars, taskVars, batcherMode, selectHow>>

\* Lines 235-259: ethbridge.WaitForBalance, then the batcher mode.
WaitForBalance ==
    /\ pc = "balance"
    /\ authCalls' = Append(authCalls, "WaitForBalance")
    /\ \E ok \in BOOLEAN :
         IF ok
           THEN /\ batcherMode' = ResolveMode(cfg)
                /\ pc' = "txdb"
                /\ result' = result
           ELSE /\ Return("error waiting for balance")
                /\ batcherMode' = batcherMode
    /\ UNCHANGED <<cfgVars, out, defers, released, started, irVars, sbVars,
                   chanVars, healthVars, taskVars, selectHow>>

\* The deferred close of the database forgotten.
DeferNothing == defers

\* Line 268: defer db.Close().
DeferDBClose == Push("db.Close")

\* The batcher loop entered right after the database is opened.
AfterOpenTxDBSkipsCatchUp == "sb_call"

\* Where startup goes on once the database is open: the test of line 270.
AfterOpenTxDB == "catchup"

\* Lines 262-268: txdb.New and defer db.Close().
OpenTxDB ==
    /\ pc = "txdb"
    /\ \E ok \in BOOLEAN :
         IF ok
           THEN /\ started' = Append(started, "txdb")
                /\ txdbState' = "open"
                /\ defers' = DeferDBClose
                /\ pc' = AfterOpenTxDB
                /\ result' = result
           ELSE /\ Return("error opening txdb")
                /\ UNCHANGED <<started, defers, txdbState>>
    /\ UNCHANGED <<cfgVars, authCalls, out, released, irVars, sbVars, chanVars,
                   healthVars, rpcState, batcherRun, lockoutState,
                   batcherMode, selectHow>>

\* Lines 270-275: inboxReader.WaitToCatchUp if config.WaitToCatchUp.
CatchUp ==
    /\ pc = "catchup"
    /\ started' = started \o If(cfg.WaitToCatchUp, "catchup")
    /\ pc' = "sb_call"
    /\ UNCHANGED <<cfgVars, authCalls, out, result, defers, released, irVars, sbVars,
                   chanVars, healthVars, taskVars, batcherMode, selectHow>>

(***************************************************************************)
(* The batcher retry loop, lines 276-303.                                  *)
(***************************************************************************)
\* The batcher rpc.SetupBatcher builds is a *batcher.SequencerBatcher
\* exactly under the sequencer mode.
SequencerBatcherBuilt(c) == ResolveMode(c).variant = "Sequencer"

\* Lines 277-292 for one attempt: sbOK and slOK are the outcomes of
\* rpc.SetupBatcher and rpc.SetupLockout, id names the batcher SetupBatcher
\* builds.  Yields the variable batch, err, whether SetupLockout ran, and
\* whether the type assertion of line 290 panicked before the call.
Attempt(sbOK, slOK, c, id) ==
    LET b1 == IF sbOK THEN [id |-> id, wrapped |-> FALSE] ELSE NoBatch
        cond == sbOK /\ c.LockoutRedis # ""
        lock == cond /\ SequencerBatcherBuilt(c)
    IN  [panics |-> cond /\ ~SequencerBatcherBuilt(c),
         lockoutCalled |-> lock,
         under |-> b1.id,
         batch |-> IF lock
                     THEN (IF slOK THEN [id |-> b1.id, wrapped |-> TRUE]
                                   ELSE NoBatch)
                     ELSE b1,
         failed |-> IF lock THEN ~slOK ELSE ~sbOK]

\* Line 277: the call of rpc.SetupBatcher begins.
SBInvoke ==
    /\ pc = "sb_call"
    /\ sbCalls' = sbCalls + 1
    /\ pc' = "sb_running"
    /\ UNCHANGED <<cfgVars, authCalls, out, result, defers, released, started, irVars,
                   sbWaits, sbWarns, batch, lockoutOn, startedOn, chanVars,
                   healthVars, taskVars, batcherMode, selectHow>>

\* Lines 277-296: the rest of one attempt.
SBReturn(sbOK, slOK) ==
    LET a == Attempt(sbOK, slOK, cfg, sbCalls) IN
    /\ pc = "sb_running"
    /\ batch' = a.batch
    /\ lockoutOn' = lockoutOn \o If(a.lockoutCalled, a.under)
    /\ IF a.panics
         THEN /\ Return("panic: interface conversion")
              /\ UNCHANGED <<sbWarns, startedOn, started, batcherRun,
                             lockoutState>>
       ELSE IF a.failed
         THEN /\ sbWarns < MaxFail
              /\ sbWarns' = sbWarns + 1
              /\ pc' = "sb_wait"
              /\ UNCHANGED <<result, startedOn, started, batcherRun,
                             lockoutState>>
         ELSE /\ startedOn' = Append(startedOn, a.batch)
              /\ started' = Append(started, "batcher")
              /\ batcherRun' = "running"
              /\ lockoutState' = IF a.batch.wrapped THEN "running" ELSE "none"
              /\ pc' = "web3"
              /\ UNCHANGED <<result, sbWarns>>
    /\ UNCHANGED <<cfgVars, authCalls, out, defers, released, irVars, sbCalls,
                   sbWaits, chanVars, healthVars, rpcState, txdbState,
                   batcherMode, selectHow>>

\* Lines 298-300: case <-ctx.Done().
SBWaitCancelled ==
    /\ pc = "sb_wait"
    /\ ctxDone
    /\ Return("ctx cancelled setup batcher")
    /\ UNCHANGED <<cfgVars, authCalls, out, defers, released, started, irVars, sbVars,
                   chanVars, healthVars, taskVars, batcherMode, selectHow>>

\* A loop that resumes after the SetupBatcher call, retrying the wrap alone.
SBRetryWrapOnly == "sb_running"

\* Where the batcher loop resumes after its wait: the top of the for body.
SBRetryTarget == "sb_call"

\* Lines 298, 301: case <-time.After(5 * time.Second); loop again.
SBWaitTimeout ==
    /\ pc = "sb_wait"
    /\ TimerWins
    /\ sbWaits' = sbWaits + 1
    /\ pc' = SBRetryTarget
    /\ UNCHANGED <<cfgVars, authCalls, out, result, defers, released, started, irVars,
                   sbCalls, sbWarns, batch, lockoutOn, startedOn, chanVars,
                   healthVars, taskVars, batcherMode, selectHow>>

\* Lines 305-318: metrics, aggregator.NewServer, web3.GenerateWeb3Server and
\* the goroutine running rpc.LaunchPublicServer.
LaunchRPC ==
    /\ pc = "web3"
    /\ \E ok \in BOOLEAN :
         IF ok
           THEN /\ started' = Append(started, "rpc")
                /\ rpcState' = "running"
                /\ pc' = "select"
                /\ result' = result
           ELSE /\ Return("error generating web3 server")
                /\ UNCHANGED <<started, rpcState>>
    /\ UNCHANGED <<cfgVars, authCalls, out, defers, released, irVars, sbVars, chanVars,
                   healthVars, batcherRun, lockoutState, txdbState,
                   batcherMode, selectHow>>

(***************************************************************************)
(* The three-way select, lines 320-327.                                    *)
(***************************************************************************)
\* A select that does not watch cancelChan.
ReadyIgnoresCancel ==
    (IF txDBErrChan THEN {"txDBErrChan"} ELSE {}) \cup
    (IF errChan # <<>> THEN {"errChan"} ELSE {})
\* The cases of the select that can proceed.
Ready ==
    (IF txDBErrChan THEN {"txDBErrChan"} ELSE {}) \cup
    (IF errChan # <<>> THEN {"errChan"} ELSE {}) \cup
    (IF cancelChan THEN {"cancelChan"} ELSE {})

\* The select with an error returned from the cancellation case too.
SelectResultCancelIsError(ch, v) ==
    IF ch = "cancelChan" THEN "ctx cancelled" ELSE v

\* The select with the error of txDBErrChan dropped.
SelectResultDropsTxDBErr(ch, v) == IF ch = "errChan" THEN v ELSE "nil"

\* What startup returns when the case of channel ch receives the value v.
SelectResult(ch, v) == IF ch = "cancelChan" THEN "nil" ELSE v

\* The select is reached: with cases ready one of them is chosen, otherwise
\* the goroutine parks until a channel is sent to.
SelectEnter ==
    /\ pc = "select"
    /\ IF Ready = {}
         THEN /\ pc' = "parked"
              /\ UNCHANGED <<result, selectHow, txDBErrChan, errChan,
                             cancelChan>>
         ELSE \E ch \in Ready :
              /\ Return(SelectResult(ch, IF ch = "errChan" THEN Head(errChan)
                                         ELSE "txdb error"))
              /\ selectHow' = "entry"
              /\ txDBErrChan' = IF ch = "txDBErrChan" THEN FALSE ELSE txDBErrChan
              /\ errChan' = IF ch = "errChan" THEN Tail(errChan) ELSE errChan
              /\ cancelChan' = IF ch = "cancelChan" THEN FALSE ELSE cancelChan
    /\ UNCHANGED <<cfgVars, authCalls, out, defers, released, started, irVars, sbVars,
                   ctxDone, firstFired, cancelAt, healthVars, taskVars,
                   batcherMode>>

\* A send of v on channel ch.  A parked select receives it at once and
\* returns; otherwise the value stays in the channel.
Send(ch, v) ==
    /\ firstFired' = IF firstFired = "none" THEN ch ELSE firstFired
    /\ IF pc = "parked"
         THEN /\ Return(SelectResult(ch, v))
              /\ selectHow' = "parked"
              /\ UNCHANGED <<txDBErrChan, errChan, cancelChan>>
         ELSE /\ txDBErrChan' = IF ch = "txDBErrChan" THEN TRUE ELSE txDBErrChan
              /\ errChan' = IF ch = "errChan" THEN Append(errChan, v) ELSE errChan
              /\ cancelChan' = IF ch = "cancelChan" THEN TRUE ELSE cancelChan
              /\ UNCHANGED <<pc, result, selectHow>>

(***************************************************************************)
(* The environment: the operator's signal and the launched goroutines.     *)
(***************************************************************************)
\* The place of the orchestrator, as far as cancellation is concerned: a
\* constructor call, a backoff wait, the final select, or elsewhere.
Where ==
    IF pc \in {"ir_running", "ir_wait", "sb_running", "sb_wait", "parked",
               "unwind"}
      THEN pc ELSE "elsewhere"

\* The process lives from the creation of the launch context at line 89
\* until startup has returned to main, which then exits.
Alive == pc \notin {"start", "done"}

\* The signals and goroutine failures that have happened so far.
Faults ==
    (IF cancelAt # "never" THEN 1 ELSE 0) +
    (IF txdbState = "failed" THEN 1 ELSE 0) +
    (IF rpcState \in {"failed", "exited"} THEN 1 ELSE 0) +
    (IF batcherRun = "failed" THEN 1 ELSE 0) +
    (IF lockoutState = "failed" THEN 1 ELSE 0)

\* One more of them may happen while the process lives.
MayFail == Alive /\ Faults < MaxFaults

\* The launch context of line 89 is cancelled from outside.
Cancel ==
    /\ MayFail
    /\ cancelAt = "never"
    /\ cancelAt' = Where
    /\ ctxDone' = TRUE
    /\ Send("cancelChan", "nil")
    /\ UNCHANGED <<cfgVars, authCalls, out, defers, released, started, irVars, sbVars,
                   healthVars, taskVars, batcherMode>>

\* The transaction database reports a fatal error on txDBErrChan.
TxDBFail ==
    /\ MayFail
    /\ txdbState = "open"
    /\ txdbState' = "failed"
    /\ Send("txDBErrChan", "txdb error")
    /\ UNCHANGED <<cfgVars, authCalls, out, defers, released, started, irVars, sbVars,
                   ctxDone, cancelAt, healthVars, rpcState, batcherRun,
                   lockoutState, batcherMode>>

\* Line 314: rpc.LaunchPublicServer returns an error.
RPCLaunchFail ==
    /\ MayFail
    /\ rpcState = "running"
    /\ rpcState' = "failed"
    /\ UNCHANGED <<cfgVars, authCalls, pc, out, result, defers, released, started, irVars,
                   sbVars, chanVars, healthVars, batcherRun, lockoutState,
                   txdbState, batcherMode, selectHow>>

\* The goroutine dropping the error of the server.
RPCErrorDropped == FALSE

\* What the goroutine of lines 313-318 does with the error of the server.
RPCErrorSent == TRUE

\* Lines 315-317: errChan <- err; the send blocks while errChan is full.
RPCSendErr ==
    /\ Alive
    /\ rpcState = "failed"
    /\ pc = "parked" \/ Len(errChan) < errChanCap
    /\ rpcState' = "exited"
    /\ IF RPCErrorSent
         THEN Send("errChan", "rpc error")
         ELSE UNCHANGED <<pc, result, selectHow, txDBErrChan, errChan,
                          cancelChan, firstFired>>
    /\ UNCHANGED <<cfgVars, authCalls, out, defers, released, started, irVars, sbVars,
                   ctxDone, cancelAt, healthVars, batcherRun, lockoutState,
                   txdbState, batcherMode>>

\* Line 293: the goroutine running batch.Start stops on a fatal error; the
\* go statement keeps nothing of it.
BatcherRunFail ==
    /\ MayFail
    /\ batcherRun = "running"
    /\ batcherRun' = "failed"
    /\ UNCHANGED <<cfgVars, authCalls, pc, out, result, defers, released, started, irVars,
                   sbVars, chanVars, healthVars, rpcState, lockoutState,
                   txdbState, batcherMode, selectHow>>

\* The lockout wrapper reports an error on the errChan passed at line 290.
LockoutFail ==
    /\ MayFail
    /\ lockoutState = "running"
    /\ pc = "parked" \/ Len(errChan) < errChanCap
    /\ lockoutState' = "failed"
    /\ Send("errChan", "lockout error")
    /\ UNCHANGED <<cfgVars, authCalls, out, defers, released, started, irVars, sbVars,
                   ctxDone, cancelAt, healthVars, rpcState, batcherRun,
                   txdbState, batcherMode>>

Next ==
    \/ Validate
    \/ RunDeferred
    \/ ParseLogFlags
    \/ NewMonitor
    \/ PublishHealth
    \/ SubscribeFeed
    \/ HealthConsume
    \/ IRInvoke
    \/ IRSucceed
    \/ IRFail
    \/ IRWaitCancelled
    \/ IRWaitTimeout
    \/ ModeForwarder
    \/ GetKeystore
    \/ WaitForBalance
    \/ OpenTxDB
    \/ CatchUp
    \/ SBInvoke
    \/ \E sbOK, slOK \in BOOLEAN : SBReturn(sbOK, slOK)
    \/ SBWaitCancelled
    \/ SBWaitTimeout
    \/ LaunchRPC
    \/ SelectEnter
    \/ Cancel
    \/ TxDBFail
    \/ RPCLaunchFail
    \/ RPCSendErr
    \/ BatcherRunFail
    \/ LockoutFail

Spec == Init /\ [][Next]_vars

\* The steps of the orchestrator goroutine itself.
OrchNext ==
    \/ Validate
    \/ RunDeferred
    \/ ParseLogFlags
    \/ NewMonitor
    \/ PublishHealth
    \/ SubscribeFeed
    \/ IRInvoke
    \/ IRSucceed
    \/ IRFail
    \/ IRWaitCancelled
    \/ IRWaitTimeout
    \/ ModeForwarder
    \/ GetKeystore
    \/ WaitForBalance
    \/ OpenTxDB
    \/ CatchUp
    \/ SBInvoke
    \/ \E sbOK, slOK \in BOOLEAN : SBReturn(sbOK, slOK)
    \/ SBWaitCancelled
    \/ SBWaitTimeout
    \/ LaunchRPC
    \/ SelectEnter

\* The Go scheduler runs every goroutine that can run: the orchestrator
\* takes its next step, and the goroutine of lines 313-318 sends the error
\* it holds.  Signals and failures are not forced to happen.
LiveSpec ==
    /\ Init
    /\ [][Next]_vars
    /\ WF_vars(OrchNext)
    /\ WF_vars(RPCSendErr)

(***************************************************************************)
(* The validation rules as the specification lists them (section 4.1).     *)
(***************************************************************************)
Violations(err, c) ==
    If2(err # "nil", "configuration parse error") \cup
    If2(c.GlobalConfig = "" \/ c.PersistentChain = "", "storage path") \cup
    If2(c.L1URL = "", "L1 URL") \cup
    If2(c.RollupAddress = "", "rollup address") \cup
    If2(c.BridgeUtilsAddress = "", "bridge-utils address") \cup
    If2(c.ChainID = 0, "chain id") \cup
    If2(c.MachineFilename = "", "machine file") \cup
    If2(c.NodeType = "forwarder" /\ c.ForwarderTarget = "", "forwarder target") \cup
    If2(c.NodeType = "aggregator" /\ c.InboxAddress = "", "inbox address") \cup
    If2(c.NodeType \notin {"forwarder", "aggregator", "sequencer"}, "role") \cup
    If2(c.NodeType # "sequencer" /\ c.LockoutRedis # "", "lockout role") \cup
    If2((c.LockoutRedis = "") # (c.LockoutSelfRPCURL = ""), "lockout pair")

Invalid == Violations(parseErr, cfg) # {}

Printed == {out[i] : i \in DOMAIN out}
Started == {started[i] : i \in DOMAIN started}

\* The message the code has for a rule, for the rules it has a message for.
RuleMessage ==
    [r \in {"rollup address", "bridge-utils address", "chain id",
            "machine file", "forwarder target", "inbox address", "role"} |->
       CASE r = "rollup address" -> "Missing --rollup.address"
         [] r = "bridge-utils address" -> "Missing --bridge-utils-address"
         [] r = "chain id" -> "Missing --rollup.chain-id"
         [] r = "machine file" -> "Missing --rollup.machine.filename"
         [] r = "forwarder target" -> "Forwarder node needs --node.forwarder.target"
         [] r = "inbox address" -> "Aggregator node needs --node.aggregator.inbox-address"
         [] r = "role" -> "Unrecognized node type"]

\* C1: a configuration that violates a validation rule makes startup return
\* no error without opening the monitor or starting any subsystem.
C1_InvalidConfigStartsNothing ==
    Invalid =>
        /\ pc \in {"start", "unwind", "done"}
        /\ started = <<>>
        /\ irCalls = 0 /\ sbCalls = 0 /\ startedOn = <<>>
        /\ txdbState = "none" /\ rpcState = "none" /\ batcherRun = "none"
        /\ hIdx = 0
        /\ result \in {"none", "nil"}
        /\ pc # "start" => result = "nil"

\* C1 witness: an aggregator without inbox address, every other rule met,
\* has been turned away and startup has returned.
C1_Witness ==
    /\ pc = "done"
    /\ Violations(parseErr, cfg) = {"inbox address"}
    /\ result = "nil"

\* C9 as claimed: when startup returns, every violated rule has been
\* reported, whatever other rules are violated with it.
C9_EveryViolationReported ==
    pc = "done" =>
        \A r \in Violations(parseErr, cfg) \cap DOMAIN RuleMessage :
            RuleMessage[r] \in Printed

\* C10 as claimed (scenario A): a forwarder without target URL, every other
\* rule met, gets the usage message and the violated rule and no error.
C10_ForwarderWithoutTargetGetsUsage ==
    (pc = "done" /\ Violations(parseErr, cfg) = {"forwarder target"}) =>
        /\ result = "nil"
        /\ "usage" \in Printed
        /\ RuleMessage["forwarder target"] \in Printed

(***************************************************************************)
(* Cancellation and the supervisor's select.                               *)
(***************************************************************************)
Returned == pc \in {"unwind", "done"}

\* C2 as claimed: whenever the cancellation signal fired during a backoff
\* wait of a retry loop or during the three-way wait, startup returns no
\* error.
C2_CancellationReturnsNoError ==
    (pc = "done" /\ cancelAt \in {"ir_wait", "sb_wait", "parked"}) =>
        result = "nil"

\* C2 amended: a signal that fires during the three-way wait makes startup
\* return no error; a signal that fires during the backoff wait of a retry
\* loop makes startup return that loop's cancellation error.
C2_CancellationResultByPlace ==
    /\ cancelAt = "parked" => Returned /\ result = "nil"
    /\ (cancelAt = "ir_wait" /\ Returned) =>
           result = "ctx cancelled StartInboxReader retry loop"
    /\ (cancelAt = "sb_wait" /\ Returned) =>
           result = "ctx cancelled setup batcher"

\* C2 witness: startup has returned no error after a signal that fired
\* while it was parked in the three-way wait, and nothing else had fired.
C2_Witness ==
    /\ pc = "done"
    /\ cancelAt = "parked"
    /\ firstFired = "cancelChan"
    /\ result = "nil"

\* The value startup returns for the first send on a channel.
SignalsOf(ch) ==
    CASE ch = "txDBErrChan" -> {"txdb error"}
      [] ch = "errChan" -> {"rpc error", "lockout error"}
      [] ch = "cancelChan" -> {"nil"}
      [] OTHER -> {}

\* C3: a select that had to wait returns the signal of the channel that was
\* sent to first; a select that found signals pending returns one of them;
\* and what was returned is not changed by signals that arrive later.
C3_FirstSignalWins ==
    /\ [](selectHow = "parked" => result \in SignalsOf(firstFired))
    /\ [](selectHow = "entry" =>
            \/ result = "txdb error" /\ txdbState = "failed"
            \/ result = "rpc error" /\ rpcState = "exited"
            \/ result = "lockout error" /\ lockoutState = "failed"
            \/ result = "nil" /\ cancelAt # "never")
    /\ [][result # "none" => result' = result]_vars

\* C3 witness (scenario E): the database error arrived first while the
\* select was waiting and was returned; the cancellation signal arrived
\* after startup had returned.
C3_Witness ==
    /\ pc = "done"
    /\ selectHow = "parked"
    /\ firstFired = "txDBErrChan"
    /\ result = "txdb error"
    /\ cancelAt = "unwind"
    /\ rpcState = "running"

Running == pc \in {"select", "parked"}

\* C4 as claimed: once the orchestrator is Running, a failure of the
\* batcher run loop makes startup terminate.
C4_BatcherFailureTerminates ==
    (Running /\ batcherRun = "failed") ~> (pc = "done")

\* C4 amended: an error returned by the RPC/WS server launch is sent on the
\* merged channel and startup terminates; it returns that error when no
\* other watched source has signalled.
C4_ServerErrorTerminates ==
    /\ (rpcState = "failed") ~> (pc = "done")
    /\ [](rpcState = "exited" => firstFired # "none")
    /\ []((/\ pc = "done" /\ rpcState = "exited"
           /\ txdbState # "failed" /\ lockoutState # "failed"
           /\ cancelAt \in {"never", "unwind"})
          => result = "rpc error")

\* C4 witness: the server launch failed while the select was waiting, the
\* batcher run loop was healthy, and startup returned the server's error.
C4_Witness ==
    /\ pc = "done"
    /\ selectHow = "parked"
    /\ rpcState = "exited"
    /\ batcherRun = "running"
    /\ firstFired = "errChan"
    /\ result = "rpc error"

(***************************************************************************)
(* The retry loops.                                                        *)
(***************************************************************************)
\* C5: a loop left by success after N failures has made N+1 constructor
\* calls, N completed waits and N warnings, and goes on with the value of
\* the last call.
C5_RetryCounts ==
    /\ inboxReader # 0 =>
         /\ inboxReader = irCalls
         /\ irCalls = irWarns + 1
         /\ irWaits = irWarns
    /\ startedOn # <<>> =>
         /\ batch.id = sbCalls
         /\ sbCalls = sbWarns + 1
         /\ sbWaits = sbWarns

\* C5 witness (scenario D): both loops succeeded after MaxFail failures and
\* the signal never fired.
C5_Witness ==
    /\ inboxReader # 0 /\ irWarns = MaxFail
    /\ startedOn # <<>> /\ sbWarns = MaxFail
    /\ cancelAt = "never"

\* C6: a loop whose backoff wait is interrupted by the signal ends with its
\* cancellation error: the constructor is not called again and the loop
\* does not end with success.
C6_CancelledWaitEndsLoop ==
    /\ cancelAt = "ir_wait" =>
         /\ pc \in {"ir_wait", "unwind", "done"}
         /\ irCalls = irWarns /\ irWaits = irWarns - 1
         /\ inboxReader = 0 /\ sbCalls = 0
         /\ result \in {"none", "ctx cancelled StartInboxReader retry loop"}
         /\ (pc = "ir_wait") = (result = "none")
    /\ cancelAt = "sb_wait" =>
         /\ pc \in {"sb_wait", "unwind", "done"}
         /\ sbCalls = sbWarns /\ sbWaits = sbWarns - 1
         /\ startedOn = <<>> /\ batcherRun = "none" /\ rpcState = "none"
         /\ result \in {"none", "ctx cancelled setup batcher"}
         /\ (pc = "sb_wait") = (result = "none")

\* C6 witness: the batcher loop was cancelled in its second backoff wait
\* and startup returned the cancellation error.
C6_Witness ==
    /\ cancelAt = "sb_wait"
    /\ sbWarns = 2
    /\ pc = "done"
    /\ result = "ctx cancelled setup batcher"

NoDuplicates(q) == \A i, j \in DOMAIN q : i # j => q[i] # q[j]

\* C7: SetupLockout is called at most once on each batcher that SetupBatcher
\* built, and Start is launched once, on the result of the last attempt,
\* which is wrapped exactly if a lockout is configured.
C7_LockoutFailureRebuildsBatcher ==
    /\ NoDuplicates(lockoutOn)
    /\ Len(lockoutOn) <= sbCalls
    /\ Len(startedOn) <= 1
    /\ pc \in {"web3", "select", "parked"} => Len(startedOn) = 1
    /\ startedOn # <<>> =>
         /\ startedOn[1] = batch
         /\ batch.id = sbCalls /\ batch.id # 0
         /\ batch.wrapped = (cfg.LockoutRedis # "")
         /\ batch.wrapped => lockoutOn[Len(lockoutOn)] = batch.id

\* C7 witness: the wrap failed on two batchers, a third one was built and
\* wrapped, and Start was launched on it.
C7_Witness ==
    /\ Len(lockoutOn) = 3
    /\ lockoutOn = <<1, 2, 3>>
    /\ startedOn = <<[id |-> 3, wrapped |-> TRUE]>>

(***************************************************************************)
(* Deferred releases.                                                      *)
(***************************************************************************)
\* The releases that are due once startup has returned, in order.
Due ==
    If("txdb" \in Started, "db.Close") \o
    If("monitor" \in Started, "mon.Close") \o
    If(pc # "start" /\ ~FirstGate(parseErr, cfg) /\ ~BadConfig(cfg),
       "log shutdown") \o
    <<"cancelFunc">>

IsPrefix(p, q) == Len(p) <= Len(q) /\ \A i \in DOMAIN p : p[i] = q[i]

\* C8: nothing is released before startup returns; after it has returned,
\* the database (if opened) is closed first, then the monitor, then the
\* shutdown message is logged, each once.
C8_ReleasesInReverseOrder ==
    /\ ~Returned => released = <<>>
    /\ pc = "unwind" => IsPrefix(released, Due) /\ released \o defers = Due
    /\ pc = "done" => released = Due

\* C8 witness: startup returned a runtime error from the select and the
\* database, the monitor and the log were released in that order.
C8_Witness ==
    /\ pc = "done"
    /\ result = "rpc error"
    /\ released = <<"db.Close", "mon.Close", "log shutdown", "cancelFunc">>

(***************************************************************************)
(* The catch-up flag.                                                      *)
(***************************************************************************)
\* C11 as stated: once subsystems start, the catch-up flag is set exactly
\* for the sequencer role, and the catch-up wait is made only by a sequencer.
C11_CatchUpOnlyForSequencer ==
    started # <<>> =>
        /\ cfg.WaitToCatchUp = (cfg.NodeType = "sequencer")
        /\ "catchup" \in Started => cfg.NodeType = "sequencer"

\* C11: validation forces the catch-up flag to true for the sequencer role
\* and leaves it as the input carried it for every other role; the catch-up
\* wait is made before the first batcher attempt exactly when the flag is set.
C11_CatchUpFlagForcedForSequencerOnly ==
    /\ [](started # <<>> /\ cfg.NodeType = "sequencer" => cfg.WaitToCatchUp)
    /\ [](sbCalls > 0 => ("catchup" \in Started <=> cfg.WaitToCatchUp))
    /\ [][cfg.NodeType # "sequencer" =>
            cfg'.WaitToCatchUp = cfg.WaitToCatchUp]_vars

\* C11 witness: an aggregator whose input carried the flag made the wait.
C11_Witness ==
    /\ cfg.NodeType = "aggregator"
    /\ cfg.WaitToCatchUp
    /\ "catchup" \in Started
    /\ sbCalls > 0

(***************************************************************************)
(* The lockout pair.                                                       *)
(***************************************************************************)
\* C12: a configuration with exactly one of the two lockout fields set
\* fails validation under every role (startup prints the usage, starts
\* nothing and returns nil); hence wherever a subsystem has started the two
\* fields are both set or both empty.
C12_LockoutFieldsPaired ==
    /\ (cfg.LockoutRedis = "") # (cfg.LockoutSelfRPCURL = "") =>
          /\ started = <<>>
          /\ pc \in {"start", "unwind", "done"}
          /\ result \in {"none", "nil"}
          /\ pc # "start" => "usage" \in Printed
    /\ started # <<>> =>
          (cfg.LockoutRedis = "") = (cfg.LockoutSelfRPCURL = "")

\* C12 witness: a sequencer otherwise valid, with the self RPC URL alone
\* set, was refused.
C12_Witness ==
    /\ cfg.NodeType = "sequencer"
    /\ cfg.LockoutRedis = "" /\ cfg.LockoutSelfRPCURL # ""
    /\ Violations(parseErr, cfg) = {"lockout pair"}
    /\ pc = "done"
    /\ result = "nil"

(***************************************************************************)
(* The order of startup.                                                   *)
(***************************************************************************)
\* The place of a subsystem in the order of startup.
Rank(x) ==
    CASE x = "monitor" -> 1
      [] x = "healthcheck" -> 2
      [] x = "feed" -> 3
      [] x = "inboxReader" -> 4
      [] x = "txdb" -> 5
      [] x = "catchup" -> 6
      [] x = "batcher" -> 7
      [] x = "rpc" -> 8

\* C13: the subsystems start in one fixed order: every health event is
\* published before the first inbox-reader attempt; the first batcher
\* attempt comes after the inbox reader was acquired, the database opened
\* and (for a sequencer) the catch-up wait returned; the RPC server is
\* launched after the batcher was started; the three-way wait is reached
\* after all of these.
C13_FixedStartOrder ==
    /\ \A i, j \in DOMAIN started : i < j => Rank(started[i]) <= Rank(started[j])
    /\ irCalls > 0 => hIdx = Len(HealthEvents(cfg))
    /\ sbCalls > 0 =>
          /\ inboxReader # 0
          /\ "txdb" \in Started /\ txdbState # "none"
          /\ cfg.NodeType = "sequencer" => "catchup" \in Started
    /\ "rpc" \in Started => startedOn # <<>> /\ batcherRun # "none"
    /\ Running \/ selectHow # "none" =>
          /\ hIdx = Len(HealthEvents(cfg))
          /\ inboxReader # 0
          /\ "txdb" \in Started
          /\ cfg.NodeType = "sequencer" => "catchup" \in Started
          /\ startedOn # <<>>
          /\ "rpc" \in Started

\* C13 witness: a sequencer waits in the three-way select with everything
\* started in order.
C13_Witness ==
    /\ pc = "parked"
    /\ cfg.NodeType = "sequencer"
    /\ cfg.FeedURLs = 1
    /\ started = <<"monitor", "healthcheck", "feed", "inboxReader", "txdb",
                   "catchup", "batcher", "rpc">>

(***************************************************************************)
(* Termination of the retry loops.                                         *)
(***************************************************************************)
InIRLoop == pc \in {"ir_call", "ir_running", "ir_wait"}
InSBLoop == pc \in {"sb_call", "sb_running", "sb_wait"}

\* C14: a retry loop is left only with the constructed object or with the
\* loop's cancellation error after the context was cancelled, never after
\* a failed attempt alone; a cancelled wait is not followed by another
\* call; and, the orchestrator being scheduled fairly, a loop whose
\* constructor eventually succeeds or whose context is cancelled is left.
C14_RetryLoopsEndBySuccessOrCancel ==
    /\ [][InIRLoop /\ ~InIRLoop' =>
            \/ pc' = "mode" /\ inboxReader' # 0 /\ result' = "none"
            \/ /\ pc' = "unwind" /\ ctxDone
               /\ result' = "ctx cancelled StartInboxReader retry loop"]_vars
    /\ [][InSBLoop /\ ~InSBLoop' =>
            \/ pc' = "web3" /\ batch' # NoBatch /\ result' = "none"
            \/ /\ pc' = "unwind" /\ ctxDone
               /\ result' = "ctx cancelled setup batcher"]_vars
    /\ [][ctxDone /\ pc \in {"ir_wait", "sb_wait"} =>
            pc' \in {pc, "unwind"}]_vars
    /\ InIRLoop ~> ~InIRLoop
    /\ InSBLoop ~> ~InSBLoop

\* C14 witness: the inbox-reader loop ended by a success after a failed
\* attempt, the batcher loop by cancellation after a failed attempt.
C14_Witness ==
    /\ pc = "done"
    /\ irWarns > 0 /\ inboxReader # 0
    /\ sbWarns > 0
    /\ result = "ctx cancelled setup batcher"

(***************************************************************************)
(* The lockout wrapper.                                                    *)
(***************************************************************************)
\* C15: rpc.SetupLockout is called only on a batcher that rpc.SetupBatcher
\* built in the same attempt, only with the lockout redis address set and
\* only under the sequencer role, so the type assertion on the batcher never
\* fails; without a lockout configuration the batcher that is started is
\* the unwrapped one and no wrapper runs.
C15_LockoutOnlyForSequencerBatcher ==
    /\ \A i \in DOMAIN lockoutOn : lockoutOn[i] \in 1..sbCalls
    /\ NoDuplicates(lockoutOn)
    /\ lockoutOn # <<>> =>
          cfg.LockoutRedis # "" /\ cfg.NodeType = "sequencer"
    /\ result # "panic: interface conversion"
    /\ cfg.LockoutRedis = "" =>
          /\ lockoutOn = <<>> /\ lockoutState = "none"
          /\ \A i \in DOMAIN startedOn :
                ~startedOn[i].wrapped /\ startedOn[i].id = sbCalls

\* C15 witness: a sequencer with a lockout configuration whose first
\* SetupBatcher call failed (no wrap attempted) and whose second attempt
\* was wrapped and started.
C15_Witness ==
    /\ cfg.NodeType = "sequencer" /\ cfg.LockoutRedis # ""
    /\ sbCalls = 2
    /\ lockoutOn = <<2>>
    /\ startedOn = <<[id |-> 2, wrapped |-> TRUE]>>

(***************************************************************************)
(* The signing identity and its balance.                                   *)
(***************************************************************************)
AuthErrors == {"error running GetKeystore", "error waiting for balance"}

\* C16: under a non-forwarder role a failure of GetKeystore or of
\* WaitForBalance is returned at once: the failed call was made once and
\* was the last one, the database was not opened, no batcher attempt was
\* made, no RPC server launched, and the monitor is closed when startup has
\* returned.  Under the forwarder role neither call is made.
C16_AuthFailureIsFatal ==
    /\ result \in AuthErrors =>
          /\ cfg.NodeType # "forwarder"
          /\ Returned
          /\ authCalls = IF result = "error running GetKeystore"
                           THEN <<"GetKeystore">>
                           ELSE <<"GetKeystore", "WaitForBalance">>
          /\ txdbState = "none" /\ "txdb" \notin Started
          /\ sbCalls = 0 /\ startedOn = <<>>
          /\ rpcState = "none" /\ "rpc" \notin Started
          /\ pc = "done" =>
                released = <<"mon.Close", "log shutdown", "cancelFunc">>
    /\ cfg.NodeType = "forwarder" => authCalls = <<>>
    /\ Len(authCalls) <= 2 /\ NoDuplicates(authCalls)
    /\ cfg.NodeType # "forwarder" /\ batcherMode.variant # "unset" =>
          authCalls = <<"GetKeystore", "WaitForBalance">>

\* C16 witness: an aggregator whose balance wait failed has returned.
C16_Witness ==
    /\ cfg.NodeType = "aggregator"
    /\ pc = "done"
    /\ result = "error waiting for balance"
    /\ authCalls = <<"GetKeystore", "WaitForBalance">>
    /\ "mon.Close" \in {released[i] : i \in DOMAIN released}

(***************************************************************************)
(* The configuration health events.                                        *)
(***************************************************************************)
\* The health events the orchestrator has sent so far.
Sent == SubSeq(HealthEvents(cfg), 1, hIdx)

\* C17: publishing the configuration health events never blocks, whatever
\* the consumer does: five events (six under the forwarder role) are sent,
\* fewer than the channel holds; a send always finds room; the events are
\* sent in one fixed order, the forwarding target exactly under the
\* forwarder role and immediately before the L1 endpoint.
C17_HealthPublicationNeverBlocks ==
    /\ HealthEvents(cfg) =
          IF cfg.NodeType = "forwarder"
            THEN <<"healthcheckMetrics", "disablePrimaryCheck",
                   "disableOpenEthereumCheck", "healthcheckRPC",
                   "primaryHealthcheckRPC", "openethereumHealthcheckRPC">>
            ELSE <<"healthcheckMetrics", "disablePrimaryCheck",
                   "disableOpenEthereumCheck", "healthcheckRPC",
                   "openethereumHealthcheckRPC">>
    /\ Len(HealthEvents(cfg)) < largeChannelBuffer
    /\ hIdx <= Len(HealthEvents(cfg))
    /\ pc = "health" =>
          /\ Len(healthChan) <= hIdx
          /\ healthChan = SubSeq(Sent, hIdx - Len(healthChan) + 1, hIdx)
          /\ hIdx < Len(HealthEvents(cfg)) => Len(healthChan) < largeChannelBuffer
    /\ pc \notin {"start", "logflags", "monitor", "health", "unwind", "done"} =>
          hIdx = Len(HealthEvents(cfg))

\* C17 witness: under the forwarder role all six events sit in the channel,
\* none of them read, and the orchestrator has no send left.
C17_Witness ==
    /\ cfg.NodeType = "forwarder"
    /\ pc = "health"
    /\ hIdx = 6
    /\ healthChan = HealthEvents(cfg)
    /\ healthChan[5] = "primaryHealthcheckRPC"

(***************************************************************************)
(* The batcher mode.                                                       *)
(***************************************************************************)
Variants ==
    {"Forwarder", "Sequencer", "StatefulAggregator", "StatelessAggregator"}

\* C18: once resolved, the batcher mode has exactly one variant, fixed by
\* the role and the stateful flag of the aggregator: Forwarder under the
\* forwarder role, Sequencer under the sequencer role with both block
\* counts copied from the configuration, StatefulAggregator or
\* StatelessAggregator under the aggregator role as the flag says; it is
\* resolved before the database is opened and never changes afterwards.
C18_ModeDeterminedByRole ==
    /\ [](batcherMode.variant \in Variants \cup {"unset"})
    /\ []("txdb" \in Started \/ sbCalls > 0 => batcherMode.variant \in Variants)
    /\ [](batcherMode.variant # "unset" =>
            CASE cfg.NodeType = "forwarder" ->
                   batcherMode.variant = "Forwarder"
              [] cfg.NodeType = "sequencer" ->
                   /\ batcherMode.variant = "Sequencer"
                   /\ batcherMode.DelayedMessagesTargetDelay =
                         cfg.DelayedMessagesTargetDelay
                   /\ batcherMode.CreateBatchBlockInterval =
                         cfg.CreateBatchBlockInterval
              [] cfg.NodeType = "aggregator" /\ cfg.Stateful ->
                   batcherMode.variant = "StatefulAggregator"
              [] cfg.NodeType = "aggregator" /\ ~cfg.Stateful ->
                   batcherMode.variant = "StatelessAggregator"
              [] OTHER -> FALSE)
    /\ [][batcherMode.variant # "unset" => batcherMode' = batcherMode]_vars

\* C18 witness: a sequencer whose two block counts differ runs with the
\* mode that carries them.
C18_Witness ==
    /\ cfg.NodeType = "sequencer"
    /\ cfg.DelayedMessagesTargetDelay = 1
    /\ cfg.CreateBatchBlockInterval = 0
    /\ pc = "parked"
    /\ batcherMode = [variant |-> "Sequencer",
                      DelayedMessagesTargetDelay |-> 1,
                      CreateBatchBlockInterval |-> 0]

(***************************************************************************)
(* Cancellation and shutdown.                                              *)
(***************************************************************************)
\* C19: whenever the database or the monitor has been closed, the context
\* of line 89 was cancelled before, on every exit path.
C19_ClosedOnlyAfterCancel ==
    \A i \in DOMAIN released :
        released[i] \in {"db.Close", "mon.Close"} => ctxDone

\* C20 as stated: once the cancellation signal has fired the orchestrator
\* starts nothing more.
C20_NothingStartedAfterCancel ==
    [][cancelAt # "never" =>
          /\ started' = started
          /\ startedOn' = startedOn
          /\ rpcState = "none" => rpcState' = "none"]_vars

\* C20: the orchestrator looks at the cancellation signal only in the wait
\* of a retry loop and in the three-way select.  After the signal a wait is
\* never followed by another attempt and the select never waits; but a
\* constructor call that returns after the signal is handled as without
\* it: on success startup goes on, and the batcher it built is started.
C20_CancelSeenOnlyAtWaits ==
    /\ [](cancelAt # "never" => pc # "parked")
    /\ [](cancelAt \notin {"never", "parked", "unwind"} /\ selectHow # "none" =>
            selectHow = "entry")
    /\ [][cancelAt # "never" /\ pc \in {"ir_wait", "sb_wait"} =>
            pc' \in {pc, "unwind"}]_vars
    /\ [][cancelAt # "never" /\ pc = "ir_running" /\ pc' # pc =>
            pc' \in {"mode", "ir_wait"}]_vars
    /\ [][cancelAt # "never" /\ pc = "sb_running" /\ pc' # pc =>
            \/ pc' = "sb_wait"
            \/ pc' = "web3" /\ batcherRun' = "running"
                  /\ startedOn' = Append(startedOn, batch')]_vars

\* C20 witness: the signal fired during a SetupBatcher call that succeeded;
\* the batcher and the RPC server were started, and the select returned nil
\* on entry.
C20_Witness ==
    /\ cancelAt = "sb_running"
    /\ "batcher" \in Started /\ "rpc" \in Started
    /\ selectHow = "entry"
    /\ result = "nil"
    /\ pc = "done"
====
